---------------------------- MODULE Spec2Model ----------------------------
(***************************************************************************)
(* A model of the LED animation playback engine.                           *)
(*                                                                         *)
(*   - Segment (segment model): dimmer timing, position update, rendering  *)
(*     into the LED array;                                                 *)
(*   - ColorUtils (color_utils.pyx): master brightness, saturating add;    *)
(*   - the scene manager / dissolve / scheduler state machine.             *)
(*                                                                         *)
(* Numbers.  The code computes with C doubles.  The model computes with    *)
(* exact integers in fixed units:                                          *)
(*   time            milliseconds (elapsed_ms of the dimmer),              *)
(*   delta_time      frames of 1/TargetFps second,                         *)
(*   move_speed      1/SpeedScale LED per second,                          *)
(*   position        1/PosScale LED, PosScale = SpeedScale * TargetFps, so *)
(*                   that move_speed * delta_time is an exact position,    *)
(*   brightness,     exact fractions <<numerator, denominator>>,           *)
(*   transparency    hundredths (Percent).                                 *)
(* A C cast <int>(x) is truncation toward zero (Trunc); the % of two C     *)
(* doubles under cdivision=True is fmod (CFmod); the % of a Python float   *)
(* object is Python's modulo (PyMod).                                      *)
(***************************************************************************)
EXTENDS Integers, Sequences, FiniteSets, TLC

VARIABLES
    seg,        \* the Segment object under test
    clock,      \* time.time(), in milliseconds
    call,       \* the last call made on seg: its name, argument, pre-state, result
    led_array,  \* the frame buffer: one <<r, g, b>> per LED
    frame_stage,\* "rendering" while segments are added, "emitted" once scaled
    renders,    \* render_to_led_array calls made into the frame buffer
    eng,        \* the EngineState of the scene manager and the scheduler
    shadow,     \* the EngineState of a twin engine that receives no staging
    op,         \* the last operation the engine has run
    controls    \* control events the engine has applied

segVars == <<seg, clock, call>>

frameVars == <<led_array, frame_stage, renders>>

engVars == <<eng, shadow, op, controls>>

vars ==
    <<seg, clock, call, led_array, frame_stage, renders, eng, shadow, op, controls>>

-----------------------------------------------------------------------------
(* Units and arithmetic                                                    *)

\* 1 / 0.001: the speed threshold of update_position is 1/SpeedThresholdInv LED/s
SpeedThresholdInv == 1000

\* move_speed is counted in 1/SpeedScale LED per second (half a threshold)
SpeedScale == 2 * SpeedThresholdInv

\* frames per second; delta_time is counted in frames
TargetFps == 60

\* current_position is counted in 1/PosScale LED
PosScale == SpeedScale * TargetFps

\* brightness percentages and transparency hundredths
Percent == 100

\* the floor of update_position, in LEDs
PositionFloor == -1000

Abs(x) == IF x < 0 THEN -x ELSE x

Min(a, b) == IF a <= b THEN a ELSE b

Max(a, b) == IF a >= b THEN a ELSE b

\* <int>(n / d), d > 0: truncation toward zero
Trunc(n, d) == IF n >= 0 THEN n \div d ELSE -((-n) \div d)

\* C fmod(a, b): the sign of the dividend
CFmod(a, b) == IF a >= 0 THEN a % Abs(b) ELSE -((-a) % Abs(b))

\* Python a % b for b > 0: in [0, b)
PyMod(a, b) == ((a % b) + b) % b

RECURSIVE Gcd(_, _)
Gcd(a, b) == IF b = 0 THEN a ELSE Gcd(b, a % b)

\* the fraction n / d, d > 0, in lowest terms
Frac(n, d) ==
    LET g == Gcd(Abs(n), d)
    IN  IF n = 0 THEN <<0, 1>> ELSE <<n \div g, d \div g>>

FracLeq(p, q) == p[1] * q[2] <= q[1] * p[2]

\* max(0.0, min(1.0, n / d))
ClampUnit(n, d) == Frac(Max(0, Min(d, n)), d)

\* n whole LEDs as a position
Led(n) == n * PosScale

-----------------------------------------------------------------------------
(* Segment: construction                                                   *)

DefaultDimmer == << <<1000, 0, 100>> >>

\* the shortest duration _validate_dimmer_time lets through, in ms
MinDurationMs == 100

\* a validation that lets every duration of 1 ms or more through
ValidateTransitionAnyDuration(tr) ==
    IF Len(tr) = 3
    THEN << Max(1, tr[1]), Max(0, Min(100, tr[2])), Max(0, Min(100, tr[3])) >>
    ELSE <<1000, 0, 100>>

\* Segment._validate_dimmer_time: one validated transition
ValidateTransition(tr) ==
    IF Len(tr) = 3
    THEN << Max(MinDurationMs, tr[1]), Max(0, Min(100, tr[2])),
            Max(0, Min(100, tr[3])) >>
    ELSE <<1000, 0, 100>>

\* Segment._validate_dimmer_time
ValidateDimmerTime(dimmer_time) ==
    IF dimmer_time = <<>>
    THEN DefaultDimmer
    ELSE [i \in 1..Len(dimmer_time) |-> ValidateTransition(dimmer_time[i])]


\* while len(short) < n: short.append(fill)
PadTo(short, n, fill) ==
    IF Len(short) >= n THEN short
    ELSE [i \in 1..n |-> IF i <= Len(short) THEN short[i] ELSE fill]

\* Segment.__post_init__ at wall time t: the position defaults to the initial
\* position, empty lists get their defaults, transparency and length are
\* padded to the colors, the segment is stamped and its dimmer validated
PostInit(raw, t) ==
    LET color == IF raw.color = <<>> THEN <<0>> ELSE raw.color
    IN  [raw EXCEPT !.current_position =
                        IF @ = 0 THEN Led(raw.initial_position) ELSE @,
                    !.color = color,
                    !.transparency = PadTo(@, Len(color), 0),
                    !.length = PadTo(@, Len(color), 1),
                    !.segment_start_time = t,
                    !.dimmer_time = ValidateDimmerTime(@)]

-----------------------------------------------------------------------------
(* Segment.get_brightness_at_time                                          *)

\* total_cycle_ms: the sum of max(1, duration)
RECURSIVE TotalCycleMs(_)
TotalCycleMs(dimmer_time) ==
    IF dimmer_time = <<>> THEN 0
    ELSE Max(1, Head(dimmer_time)[1]) + TotalCycleMs(Tail(dimmer_time))

\* a dimmer that forgets the modulo and runs its cycle once
CycleElapsedNoWrap(elapsed_ms, total_cycle_ms) == elapsed_ms

\* elapsed_ms = elapsed_ms % total_cycle_ms, on C doubles: 0 at every exact
\* multiple of the cycle
CycleElapsedMs(elapsed_ms, total_cycle_ms) == CFmod(elapsed_ms, total_cycle_ms)

\* a transition that holds its start brightness to its end
TransitionBrightnessHeld(tr, elapsed_ms, current_time_ms) ==
    ClampUnit(tr[2], Percent)

\* the brightness inside one transition
TransitionBrightness(tr, elapsed_ms, current_time_ms) ==
    LET duration_ms == Max(1, tr[1])
        progress    == Max(0, Min(duration_ms, elapsed_ms - current_time_ms))
    IN  ClampUnit(tr[2] * duration_ms + (tr[3] - tr[2]) * progress,
                  Percent * duration_ms)

\* the loop over the transitions, from transition i on
RECURSIVE DimmerWalk(_, _, _, _)
DimmerWalk(dimmer_time, i, current_time_ms, elapsed_ms) ==
    IF i > Len(dimmer_time)
    THEN ClampUnit(dimmer_time[Len(dimmer_time)][3], Percent)
    ELSE LET duration_ms == Max(1, dimmer_time[i][1])
         IN  IF elapsed_ms <= current_time_ms + duration_ms
             THEN TransitionBrightness(dimmer_time[i], elapsed_ms, current_time_ms)
             ELSE DimmerWalk(dimmer_time, i + 1, current_time_ms + duration_ms,
                             elapsed_ms)

\* Segment.get_brightness_at_time(current_time), a fraction in [0, 1]
GetBrightnessAtTime(s, current_time) ==
    LET total_cycle_ms == TotalCycleMs(s.dimmer_time)
    IN  IF s.dimmer_time = <<>> \/ total_cycle_ms <= 0
        THEN <<1, 1>>
        ELSE DimmerWalk(s.dimmer_time, 1, 0,
                        CycleElapsedMs(current_time - s.segment_start_time,
                                       total_cycle_ms))

-----------------------------------------------------------------------------
(* Segment.update_position                                                 *)

\* fabs(self.move_speed) < 0.001
BelowSpeedThreshold(move_speed) ==
    Abs(move_speed) * SpeedThresholdInv < SpeedScale

\* reset_animation_timing(): segment_start_time <- time.time()
ResetAnimationTiming(s, t) == [s EXCEPT !.segment_start_time = t]

\* the branch taken when the position has gone below 0, on the range as given
NegativePositionBranch(s, t) ==
    IF Len(s.move_range) >= 2
    THEN LET min_pos == Led(s.move_range[1])
             max_pos == Led(s.move_range[2])
             range_size == max_pos - min_pos
         IN  IF s.is_edge_reflect
             THEN LET s1 == [s EXCEPT !.current_position = min_pos + Abs(@)]
                  IN  IF s.move_speed < 0
                      THEN ResetAnimationTiming(
                               [s1 EXCEPT !.move_speed = Abs(@)], t)
                      ELSE s1
             ELSE IF range_size > 0
                  THEN [s EXCEPT !.current_position =
                                     max_pos + PyMod(@, range_size)]
                  ELSE s
    ELSE LET s1 == [s EXCEPT !.current_position = 0]
         IN  IF s.move_speed < 0
             THEN ResetAnimationTiming([s1 EXCEPT !.move_speed = Abs(@)], t)
             ELSE s1

\* min_pos > max_pos: the bounds are swapped and stored back
NormalizeRange(s) ==
    IF s.move_range[1] > s.move_range[2]
    THEN [s EXCEPT !.move_range = <<s.move_range[2], s.move_range[1]>>]
    ELSE s

\* a reflect branch that turns around at the bounds without clamping
ReflectBranchNoClamp(s, t) ==
    LET min_pos == Led(s.move_range[1])
        max_pos == Led(s.move_range[2])
    IN  IF s.current_position <= min_pos /\ s.move_speed < 0
        THEN ResetAnimationTiming([s EXCEPT !.move_speed = Abs(@)], t)
        ELSE IF s.current_position >= max_pos /\ s.move_speed > 0
        THEN ResetAnimationTiming([s EXCEPT !.move_speed = -Abs(@)], t)
        ELSE s

\* a reflect branch that clamps and turns around but keeps the dimmer running
ReflectBranchNoReset(s, t) ==
    LET min_pos == Led(s.move_range[1])
        max_pos == Led(s.move_range[2])
    IN  IF s.current_position <= min_pos
        THEN [s EXCEPT !.current_position = min_pos, !.move_speed = Abs(@)]
        ELSE IF s.current_position >= max_pos
        THEN [s EXCEPT !.current_position = max_pos, !.move_speed = -Abs(@)]
        ELSE s

\* is_edge_reflect: clamp at the bound, turn around, restart the dimmer
ReflectBranch(s, t) ==
    LET min_pos == Led(s.move_range[1])
        max_pos == Led(s.move_range[2])
    IN  IF s.current_position <= min_pos
        THEN LET s1 == [s EXCEPT !.current_position = min_pos]
             IN  IF s.move_speed < 0
                 THEN ResetAnimationTiming([s1 EXCEPT !.move_speed = Abs(@)], t)
                 ELSE s1
        ELSE IF s.current_position >= max_pos
        THEN LET s1 == [s EXCEPT !.current_position = max_pos]
             IN  IF s.move_speed > 0
                 THEN ResetAnimationTiming([s1 EXCEPT !.move_speed = -Abs(@)], t)
                 ELSE s1
        ELSE s

\* wrap below the range: max_pos - (offset % range_size)
WrapBelow(position, min_pos, max_pos) ==
    max_pos - CFmod(min_pos - position, max_pos - min_pos)

\* a wrap that forgets the modulo
WrapAboveNoModulo(position, min_pos, max_pos) ==
    min_pos + (position - max_pos)

\* a wrap over the hi - lo + 1 cells of the range: 9 -> 10 -> 0 -> 1
WrapAboveInclusive(position, min_pos, max_pos) ==
    min_pos + CFmod(position - min_pos, max_pos - min_pos + PosScale)

\* wrap above the range: min_pos + (offset % range_size)
WrapAbove(position, min_pos, max_pos) ==
    min_pos + CFmod(position - max_pos, max_pos - min_pos)

\* not is_edge_reflect: wrap around, or pin an empty range
WrapBranch(s) ==
    LET min_pos == Led(s.move_range[1])
        max_pos == Led(s.move_range[2])
    IN  IF max_pos - min_pos > 0
        THEN IF s.current_position < min_pos
             THEN [s EXCEPT !.current_position = WrapBelow(@, min_pos, max_pos)]
             ELSE IF s.current_position > max_pos
             THEN [s EXCEPT !.current_position = WrapAbove(@, min_pos, max_pos)]
             ELSE s
        ELSE [s EXCEPT !.current_position = min_pos]

\* the range handling that follows the negative-position branch
RangeBranch(s, t) ==
    IF Len(s.move_range) >= 2
    THEN LET n == NormalizeRange(s)
         IN  IF n.is_edge_reflect THEN ReflectBranch(n, t) ELSE WrapBranch(n)
    ELSE s

\* self.current_position = max(-1000.0, self.current_position)
FloorPosition(s) ==
    [s EXCEPT !.current_position = Max(Led(PositionFloor), @)]

\* an update that moves forward whatever the sign of delta_time
UpdatePositionForwardOnly(s, delta_time, t) ==
    IF BelowSpeedThreshold(s.move_speed)
    THEN s
    ELSE LET moved == [s EXCEPT !.current_position =
                                    @ + s.move_speed * Abs(delta_time)]
             lifted == IF moved.current_position < 0
                       THEN NegativePositionBranch(moved, t)
                       ELSE moved
         IN  FloorPosition(RangeBranch(lifted, t))

\* Segment.update_position(delta_time), called at wall time t
UpdatePosition(s, delta_time, t) ==
    IF BelowSpeedThreshold(s.move_speed)
    THEN s
    ELSE LET moved == [s EXCEPT !.current_position = @ + s.move_speed * delta_time]
             lifted == IF moved.current_position < 0
                       THEN NegativePositionBranch(moved, t)
                       ELSE moved
         IN  FloorPosition(RangeBranch(lifted, t))

-----------------------------------------------------------------------------
(* Segment.render_to_led_array_fast and the color helpers                  *)

\* the malloc'ed capacity of segment_colors
MaxSegmentLeds == 1000

\* fade_factor never goes below 0.1 = 1 / MinFadeInv
MinFadeInv == 10

Black == <<0, 0, 0>>

\* clamp of one channel to [0, 255]
ClampChannel(value) == IF value > 255 THEN 255 ELSE IF value < 0 THEN 0 ELSE value

\* apply_transparency_brightness: one truncation of base * opacity * brightness,
\* then the clamp; transparency in hundredths, brightness a fraction
ApplyTransparencyBrightness(base, transparency, brightness) ==
    [ch \in 1..3 |->
        ClampChannel(Trunc(base[ch] * (Percent - transparency) * brightness[1],
                           Percent * brightness[2]))]

\* a saturating add that forgets to saturate
AddColorUnbounded(led, color) == [ch \in 1..3 |-> led[ch] + color[ch]]

\* an add that lets the later color replace the earlier one
AddColorOverwrite(led, color) ==
    [ch \in 1..3 |-> IF color[ch] > 0 THEN color[ch] ELSE led[ch]]

\* add_color_to_led, on one LED: the sum if it is <= 255, else 255
AddColor(led, color) ==
    [ch \in 1..3 |-> IF led[ch] + color[ch] <= 255 THEN led[ch] + color[ch] ELSE 255]

\* a fade without the floor of 0.1
ApplyFractionalFadeNoFloor(color, fractional_part, is_first, is_last) ==
    LET fade == IF is_first /\ ~is_last THEN fractional_part
                ELSE IF is_last /\ ~is_first THEN PosScale - fractional_part
                ELSE PosScale
    IN  [ch \in 1..3 |-> Trunc(color[ch] * fade, PosScale)]

\* apply_fractional_fade; fractional_part in 1/PosScale
ApplyFractionalFade(color, fractional_part, is_first, is_last) ==
    LET floor == PosScale \div MinFadeInv
        fade  == IF is_first /\ ~is_last
                 THEN (IF fractional_part > floor THEN fractional_part ELSE floor)
                 ELSE IF is_last /\ ~is_first
                 THEN (IF PosScale - fractional_part > floor
                       THEN PosScale - fractional_part ELSE floor)
                 ELSE PosScale
    IN  [ch \in 1..3 |-> Trunc(color[ch] * fade, PosScale)]

\* a palette lookup that wraps an index around the palette
BaseColorWrapping(palette, color_index) ==
    IF palette = <<>> THEN Black
    ELSE palette[(color_index % Len(palette)) + 1]

\* palette[color_index], or black when the index is out of range (0-based)
BaseColor(palette, color_index) ==
    IF color_index >= 0 /\ color_index < Len(palette)
    THEN palette[color_index + 1]
    ELSE Black

\* the final color of part i (1-based) of the segment
PartColor(s, palette, i, brightness) ==
    ApplyTransparencyBrightness(
        BaseColor(palette, IF i <= Len(s.color) THEN s.color[i] ELSE 0),
        IF i <= Len(s.transparency) THEN s.transparency[i] ELSE 0,
        brightness)

\* the loop over the parts: length[i] copies of each part's color, up to the
\* capacity
RECURSIVE ExpandParts(_, _, _, _, _)
ExpandParts(s, palette, brightness, i, acc) ==
    IF i > Len(s.length) THEN acc
    ELSE LET part_length == Max(0, s.length[i])
             room == MaxSegmentLeds - Len(acc)
         IN  IF part_length = 0 \/ room <= 0
             THEN ExpandParts(s, palette, brightness, i + 1, acc)
             ELSE ExpandParts(s, palette, brightness, i + 1,
                      acc \o [k \in 1..Min(part_length, room) |->
                                  PartColor(s, palette, i, brightness)])

\* the loop over the colors that have no length: one LED each
RECURSIVE ExpandExtras(_, _, _, _, _)
ExpandExtras(s, palette, brightness, i, acc) ==
    IF i > Len(s.color) \/ Len(acc) >= MaxSegmentLeds THEN acc
    ELSE ExpandExtras(s, palette, brightness, i + 1,
             Append(acc,
                 ApplyTransparencyBrightness(
                     BaseColor(palette, s.color[i]),
                     IF i <= Len(s.transparency) THEN s.transparency[i] ELSE 0,
                     brightness)))

\* segment_colors[0 .. total_segment_leds)
SegmentColors(s, palette, brightness) ==
    ExpandExtras(s, palette, brightness, Len(s.length) + 1,
                 ExpandParts(s, palette, brightness, 1, <<>>))

\* a placement that keeps every color of a segment overlapping the left edge
PlacementNoSkip(s, colors) ==
    LET base_position == Max(0, Trunc(s.current_position, PosScale))
    IN  [colors |-> colors,
         base_position |-> base_position,
         fractional_part |->
             Max(0, Min(PosScale, s.current_position - Led(base_position)))]

\* where the colors go: the colors kept, the LED of the first one and the
\* fractional part used for the edge fade
Placement(s, colors) ==
    IF s.current_position < 0 /\ s.current_position > -Led(Len(colors))
    THEN LET skip_count == Trunc(Abs(s.current_position), PosScale)
         IN  [colors |-> SubSeq(colors, skip_count + 1, Len(colors)),
              base_position |-> 0,
              fractional_part |-> 0]
    ELSE LET base_position == Max(0, Trunc(s.current_position, PosScale))
         IN  [colors |-> colors,
              base_position |-> base_position,
              fractional_part |->
                  Max(0, Min(PosScale, s.current_position - Led(base_position)))]

\* the color added for segment LED i (0-based) of a placement
FadedColor(pl, i) ==
    IF Len(pl.colors) > 1 /\ pl.fractional_part > 0
    THEN ApplyFractionalFade(pl.colors[i + 1], pl.fractional_part,
                             i = 0, i = Len(pl.colors) - 1)
    ELSE pl.colors[i + 1]

\* the loop over the placed colors: each LED of the array under the segment
\* gets one saturating add
AddPlacement(pl, array) ==
    [led \in 1..Len(array) |->
        LET i == (led - 1) - pl.base_position
        IN  IF i >= 0 /\ i < Len(pl.colors)
            THEN AddColor(array[led], FadedColor(pl, i))
            ELSE array[led]]

\* Segment.render_to_led_array_fast(palette, current_time, led_array)
RenderToLedArray(s, palette, current_time, array) ==
    IF s.color = <<>> \/ Len(palette) = 0
    THEN array
    ELSE LET brightness == GetBrightnessAtTime(s, current_time)
         IN  IF brightness[1] <= 0
             THEN array
             ELSE LET colors == SegmentColors(s, palette, brightness)
                  IN  IF Len(colors) > 0
                      THEN AddPlacement(Placement(s, colors), array)
                      ELSE array

-----------------------------------------------------------------------------
(* ColorUtils: master brightness                                           *)

\* <<channel, master_brightness>> with the channel in [0, 255] for which the
\* double product channel * (master_brightness / 255.0) is below the integer
\* channel * master_brightness / 255 (IEEE 754 binary64: the quotient
\* master_brightness / 255.0 is rounded down and the product stays below)
DoubleShortfall ==
    { <<85, 147>>, <<170, 147>>, <<51, 155>>, <<102, 155>>, <<153, 155>>,
      <<204, 155>>, <<85, 171>>, <<170, 171>>, <<75, 187>>, <<150, 187>>,
      <<165, 187>>, <<153, 195>> }

\* <int>(channel * brightness_factor), brightness_factor the double
\* master_brightness / 255.0; channel in [0, 255]
MasterChannel(channel, master_brightness) ==
    IF <<channel, master_brightness>> \in DoubleShortfall
    THEN Trunc(channel * master_brightness, 255) - 1
    ELSE Trunc(channel * master_brightness, 255)

\* apply_master_brightness_fast on one color, 0 < master_brightness < 255
ApplyMasterBrightness(color, master_brightness) ==
    [ch \in 1..3 |-> MasterChannel(color[ch], master_brightness)]

\* apply_master_brightness_array_fast
ApplyMasterBrightnessArray(array, master_brightness) ==
    IF master_brightness <= 0
    THEN [led \in 1..Len(array) |-> Black]
    ELSE IF master_brightness >= 255
    THEN array
    ELSE [led \in 1..Len(array) |->
             ApplyMasterBrightness(array[led], master_brightness)]

\* ColorUtils.apply_colors_to_array
ApplyColorsToArray(led_colors, master_brightness) ==
    IF master_brightness = 255
    THEN led_colors
    ELSE ApplyMasterBrightnessArray(led_colors, master_brightness)

-----------------------------------------------------------------------------
(* Bounds and inputs                                                       *)

\* update_position calls in one run
MaxClock == 3

\* get_brightness_at_time is sampled every SampleStepMs up to MaxSamples steps
SampleStepMs == 50

MaxSamples == 50

NoCall == [op |-> "none", arg |-> 0, pre |-> <<>>, result |-> <<>>]

\* a Segment as its constructor receives it
RawSegment(position, speed, range, reflect, dimmer) ==
    [segment_id |-> 0, color |-> <<0>>, transparency |-> <<>>, length |-> <<>>,
     move_speed |-> speed, move_range |-> range, initial_position |-> 0,
     current_position |-> position, is_edge_reflect |-> reflect,
     dimmer_time |-> dimmer, segment_start_time |-> 0]

\* a still Segment with the given parts, as its constructor receives it
RawParts(parts, position, dimmer) ==
    [RawSegment(position, 0, <<0, 9>>, TRUE, dimmer)
        EXCEPT !.color = parts[1], !.transparency = parts[2], !.length = parts[3]]

\* LEDs of the frame buffer
LedCount == 4

\* render_to_led_array calls into one frame
MaxRenders == 2

ZeroFrame == [led \in 1..LedCount |-> Black]

\* the frame variables of a run that renders nothing
FrameIdle ==
    /\ led_array = ZeroFrame
    /\ frame_stage = "rendering"
    /\ renders = 0

\* the segment variables of a run that calls nothing on seg
SegmentIdle ==
    /\ clock = 0
    /\ seg = PostInit(RawSegment(0, 0, <<0, 9>>, TRUE, DefaultDimmer), 0)
    /\ call = [op |-> "none", arg |-> 0, pre |-> <<>>, result |-> <<>>]

\* <<color, transparency, length>> of the rendered segments: one part, two
\* parts with a half-transparent one, a color index outside the palette with
\* an over-opaque part and short lists, a part of length 0, and a negative
\* color index in front of a colored part
RenderParts ==
    { << <<0>>, <<0>>, <<2>> >>,
      << <<0, 1>>, <<0, 50>>, <<1, 2>> >>,
      << <<1, 7, 0>>, <<-50>>, <<1>> >>,
      << <<1, 0>>, <<0, 0>>, <<0, 3>> >>,
      << <<-1, 0>>, <<0, 0>>, <<2, 1>> >> }

\* positions of the rendered segments: left of the array by more than the
\* segment, overlapping its left edge, a fraction below 0, on a LED, between
\* two LEDs, just past a LED, over the right edge
RenderPositions ==
    { Led(-5), Led(-1), -(PosScale \div 2), 0, Led(1) + PosScale \div 2,
      Led(1) + PosScale \div 20, Led(3) }

\* dimmers of the rendered segments: the default ramp and full brightness
RenderDimmers == { DefaultDimmer, << <<1000, 100, 100>> >> }

\* render times: brightness 0 and 0.5 on the ramp
RenderTimes == { 0, 500 }

\* palettes: in range, with channels out of range, and empty
Palettes ==
    { << <<255, 0, 0>>, <<0, 200, 100>> >>,
      << <<120, 120, 120>>, <<300, -20, 255>> >>,
      <<>> }

\* master_brightness values
MasterLevels == { 0, 128, 255 }

RenderSegments ==
    { PostInit(RawParts(parts, p, d), 0) :
        parts \in RenderParts, p \in RenderPositions, d \in RenderDimmers }

\* move_range values: plain, offset, with a negative bound, empty, given
\* upside down, below the position floor, and too short to be a range
MoveRanges ==
    { <<0, 9>>, <<2, 5>>, <<-3, 3>>, <<4, 4>>, <<5, 2>>, <<-1002, -1001>>, <<3>> }

\* move_speed values: still, below the threshold, 10 LED/s either way, 60 LED/s
MoveSpeeds == { 0, 1, 10 * SpeedScale, -10 * SpeedScale, 60 * SpeedScale }

\* positions a segment is constructed at: inside, on and outside the ranges
StartPositions == { Led(-2), 0, Led(5) \div 2, Led(9), Led(12) }

\* delta_time values, in frames: backwards, none, one frame, 0.2 s, 1 s
DeltaTimes == { -12, 0, 1, 12, 60 }

\* dimmer_time values as given to the constructor
DimmerInputs ==
    { << <<1000, 0, 100>>, <<1000, 100, 0>> >>,
      << <<1000, 0, 100>> >>,
      << <<100, 20, 80>>, <<300, 80, 40>> >>,
      << <<50, 0, 100>> >>,
      << <<200, 150, -20>>, <<1, 2>> >>,
      <<>> }

\* construction times of the dimmer runs
StartTimes == { 0, 250 }

SampleTimes == { k * SampleStepMs : k \in 0..MaxSamples }

-----------------------------------------------------------------------------
(* ColorUtils: transition blend                                            *)

\* calculate_transition_fast on one channel, progress = p[1] / p[2] in [0, 1]
BlendChannel(from_channel, to_channel, p) ==
    ClampChannel(Trunc(from_channel * (p[2] - p[1]) + to_channel * p[1], p[2]))

\* calculate_transition_fast
Blend(from_color, to_color, p) ==
    [ch \in 1..3 |-> BlendChannel(from_color[ch], to_color[ch], p)]

-----------------------------------------------------------------------------
(* Scene manager, dissolve engine and frame scheduler                      *)

\* scheduler ticks in one run
MaxTicks == 4

\* control events in one run
MaxControls == 4

\* frames of 1/TargetFps second between two scheduler ticks
TickFrames == 3

\* milliseconds between two scheduler ticks
TickMs == (TickFrames * 1000) \div TargetFps

Palette6(c0, c1) == <<c0, c1, Black, Black, Black, Black>>

BlackPalette == Palette6(Black, Black)

\* the loaded SceneBundle: scene 0 has two palettes and two effects (a
\* segment of two LEDs bouncing in [0, 3] at 10 LED/s, a still segment on a
\* dimmer ramp); scene 1 has one palette and one effect (a still fill)
SceneBundle ==
    << [palettes |-> << Palette6(<<255, 0, 0>>, <<0, 200, 100>>),
                        Palette6(<<0, 0, 255>>, <<90, 90, 90>>) >>,
        effects |->
          << << [RawSegment(0, 10 * SpeedScale, <<0, 3>>, TRUE,
                            << <<1000, 100, 100>> >>)
                    EXCEPT !.length = <<2>>] >>,
             << RawParts(<< <<1>>, <<0>>, <<4>> >>, 0,
                         << <<100, 0, 100>>, <<100, 100, 0>> >>) >> >>],
       [palettes |-> << Palette6(<<200, 200, 200>>, <<0, 0, 0>>) >>,
        effects |->
          << << RawParts(<< <<0>>, <<50>>, <<4>> >>, 0,
                         << <<1000, 100, 100>> >>) >> >>] >>

\* the loaded DissolveBundle: two bands one after the other, and no band
DissolvePatterns ==
    << << <<0, 100, 0, 1>>, <<100, 100, 2, 3>> >>,
       <<>> >>

\* ids given to the control operations: scene, effect, palette, pattern
ControlIds == { 0, 1, 2 }

\* values given to set_speed
SpeedInputs == { -100, 100 }

\* values given to set_master_brightness
MasterInputs == { 128, 300 }

FirstIds == [scene |-> 0, effect |-> 0, palette |-> 0]

NoDissolve ==
    [on |-> FALSE, from_frame |-> ZeroFrame, start_instant |-> 0,
     pattern |-> <<>>]

\* the scenes of a bundle, every segment constructed at instant t
BuildScenes(bundle, t) ==
    [sc \in 1..Len(bundle) |->
        [palettes |-> bundle[sc].palettes,
         effects |->
            [ef \in 1..Len(bundle[sc].effects) |->
                [sg \in 1..Len(bundle[sc].effects[ef]) |->
                    PostInit(bundle[sc].effects[ef][sg], t)]]]]

\* load_scenes(bundle)
LoadScenes(e) ==
    [e EXCEPT !.scenes = BuildScenes(SceneBundle, e.now),
              !.active = FirstIds,
              !.staged = FirstIds,
              !.dissolve = NoDissolve]

\* the engine after construction and the first load_scenes
NewEngine ==
    LoadScenes([scenes |-> <<>>, active |-> FirstIds, staged |-> FirstIds,
                dissolve |-> NoDissolve, dissolve_pattern_id |-> 0,
                speed_percent |-> 100, master_brightness |-> 255,
                paused |-> FALSE, now |-> 0,
                last_frame |-> ZeroFrame, emitted |-> ZeroFrame])

\* cache_change_scene(id): ignored when the scene does not exist
CacheChangeScene(e, id) ==
    IF id + 1 \in DOMAIN e.scenes
    THEN [e EXCEPT !.staged.scene = id]
    ELSE e

\* cache_change_effect(id): ignored when the staged scene has no such effect
CacheChangeEffect(e, id) ==
    IF id + 1 \in DOMAIN e.scenes[e.staged.scene + 1].effects
    THEN [e EXCEPT !.staged.effect = id]
    ELSE e

\* a palette change that takes effect at once
CacheChangePaletteNow(e, id) ==
    IF id + 1 \in DOMAIN e.scenes[e.staged.scene + 1].palettes
    THEN [e EXCEPT !.staged.palette = id, !.active.palette = id]
    ELSE e

\* cache_change_palette(id): ignored when out of range on the staged scene
CacheChangePalette(e, id) ==
    IF id + 1 \in DOMAIN e.scenes[e.staged.scene + 1].palettes
    THEN [e EXCEPT !.staged.palette = id]
    ELSE e

\* Scene.current_effect() of the active scene: its segments, or none
ActiveSegments(e) ==
    LET scene == e.scenes[e.active.scene + 1]
    IN  IF e.active.effect + 1 \in DOMAIN scene.effects
        THEN scene.effects[e.active.effect + 1]
        ELSE <<>>

\* Scene.current_palette() of the active scene, or an all-black palette
ActivePalette(e) ==
    LET scene == e.scenes[e.active.scene + 1]
    IN  IF e.active.palette + 1 \in DOMAIN scene.palettes
        THEN scene.palettes[e.active.palette + 1]
        ELSE BlackPalette

\* the active scene has the active effect
HasActiveEffect(e) ==
    e.active.effect + 1 \in DOMAIN e.scenes[e.active.scene + 1].effects

\* every segment of the active effect restarts its timing at instant t
ResetActiveTimings(e, t) ==
    IF HasActiveEffect(e)
    THEN [e EXCEPT !.scenes[e.active.scene + 1].effects[e.active.effect + 1] =
                        [sg \in DOMAIN @ |-> ResetAnimationTiming(@[sg], t)]]
    ELSE e

\* a commit that starts a dissolve whether or not an id differs
CommitPatternAlways(e) ==
    LET adopted == [e EXCEPT !.active = e.staged]
        reset == ResetActiveTimings(adopted, e.now)
    IN  [reset EXCEPT !.dissolve =
            [on |-> TRUE, from_frame |-> e.last_frame,
             start_instant |-> e.now,
             pattern |-> DissolvePatterns[e.dissolve_pattern_id + 1]]]

\* commit_pattern(): a no-op when no staged id differs; else the current
\* rendered frame becomes from_frame, the staged ids become active, the
\* segments of the adopted effect restart their timing, a dissolve begins
CommitPattern(e) ==
    IF e.staged = e.active
    THEN e
    ELSE LET adopted == [e EXCEPT !.active = e.staged]
             reset == ResetActiveTimings(adopted, e.now)
         IN  [reset EXCEPT !.dissolve =
                 [on |-> TRUE, from_frame |-> e.last_frame,
                  start_instant |-> e.now,
                  pattern |-> DissolvePatterns[e.dissolve_pattern_id + 1]]]

\* set_dissolve_pattern(id): ignored when the pattern is not loaded
SetDissolvePattern(e, id) ==
    IF id + 1 \in DOMAIN DissolvePatterns
    THEN [e EXCEPT !.dissolve_pattern_id = id]
    ELSE e

\* set_speed(p)
SetSpeed(e, p) == [e EXCEPT !.speed_percent = Max(0, Min(1023, p))]

\* set_master_brightness(b)
SetMasterBrightness(e, b) ==
    [e EXCEPT !.master_brightness = Max(0, Min(255, b))]

\* pause()
Pause(e) == [e EXCEPT !.paused = TRUE]

\* resume()
Resume(e) == [e EXCEPT !.paused = FALSE]

\* update_animation(dt): the position update of every active segment
UpdateAnimation(e, delta_time) ==
    IF HasActiveEffect(e)
    THEN [e EXCEPT !.scenes[e.active.scene + 1].effects[e.active.effect + 1] =
                        [sg \in DOMAIN @ |->
                            UpdatePosition(@[sg], delta_time, e.now)]]
    ELSE e

RECURSIVE RenderSegmentsInto(_, _, _, _)
\* the segments, in order, rendered into the array
RenderSegmentsInto(segments, palette, current_time, array) ==
    IF segments = <<>>
    THEN array
    ELSE RenderSegmentsInto(Tail(segments), palette, current_time,
             RenderToLedArray(Head(segments), palette, current_time, array))

\* steps 2 and 3 of the render pipeline: the raw render of the active effect
RenderActive(e) ==
    RenderSegmentsInto(ActiveSegments(e), ActivePalette(e), e.now, ZeroFrame)

\* a band progress that starts over after each duration
BandProgressSawtooth(band, elapsed_ms) ==
    LET t == elapsed_ms - band[1]
    IN  IF t <= 0 THEN <<0, 1>>
        ELSE IF band[2] <= 0 THEN <<1, 1>>
        ELSE Frac(t % band[2], band[2])

\* p_band of a band (delay_ms, duration_ms, s, e) after elapsed_ms
BandProgress(band, elapsed_ms) ==
    LET t == elapsed_ms - band[1]
    IN  IF t <= 0 THEN <<0, 1>>
        ELSE IF t >= band[2] THEN <<1, 1>>
        ELSE Frac(t, band[2])

\* the band covers the LED (0-based), its ends clipped to the array
BandCovers(band, led) ==
    /\ Max(0, band[3]) <= led
    /\ led <= Min(LedCount - 1, band[4])

RECURSIVE MaxProgress(_, _, _, _)
\* the maximum progress over the bands that cover the LED, from p
MaxProgress(pattern, led, elapsed_ms, p) ==
    IF pattern = <<>>
    THEN p
    ELSE LET band == Head(pattern)
             q == BandProgress(band, elapsed_ms)
         IN  MaxProgress(Tail(pattern), led, elapsed_ms,
                 IF BandCovers(band, led) /\ ~FracLeq(q, p) THEN q ELSE p)

\* p_i of LED i (0-based) of the active dissolve at e.now
LedProgress(e, led) ==
    MaxProgress(e.dissolve.pattern, led, e.now - e.dissolve.start_instant,
                <<0, 1>>)

\* a dissolve that is done only after the end of its last band
DissolveDoneAfterEnd(e) ==
    \A k \in DOMAIN e.dissolve.pattern :
        e.now - e.dissolve.start_instant >
            e.dissolve.pattern[k][1] + e.dissolve.pattern[k][2]

\* every band has completed; so has a pattern with no band
DissolveDone(e) ==
    \A k \in DOMAIN e.dissolve.pattern :
        BandProgress(e.dissolve.pattern[k],
                     e.now - e.dissolve.start_instant) = <<1, 1>>

\* render(now), not paused: raw render, dissolve, master brightness
Render(e) ==
    LET to_frame == RenderActive(e)
        blending == e.dissolve.on /\ ~DissolveDone(e)
        composed ==
            IF blending
            THEN [led \in 1..LedCount |->
                     Blend(e.dissolve.from_frame[led], to_frame[led],
                           LedProgress(e, led - 1))]
            ELSE to_frame
    IN  [e EXCEPT !.dissolve = IF blending THEN @ ELSE NoDissolve,
                  !.last_frame = composed,
                  !.emitted = ApplyMasterBrightnessArray(composed,
                                                         e.master_brightness)]

\* virtual delta of one tick, in frames: dt_real * speed_percent / 100
VirtualDelta(e) == (TickFrames * e.speed_percent) \div Percent

\* a tick whose pause blanks the frame but not the animation
TickAnimatingWhilePaused(e) ==
    LET advanced == [e EXCEPT !.now = @ + TickMs]
        rendered == Render(UpdateAnimation(advanced, VirtualDelta(e)))
    IN  IF e.paused
        THEN [rendered EXCEPT !.emitted = ZeroFrame]
        ELSE rendered

\* one scheduler tick: paused, the all-black frame is emitted directly and
\* neither dt nor now advances; else update_animation(dt), then render(now)
Tick(e) ==
    IF e.paused
    THEN [e EXCEPT !.emitted = ZeroFrame]
    ELSE LET advanced == [e EXCEPT !.now = @ + TickMs]
         IN  Render(UpdateAnimation(advanced, VirtualDelta(e)))

\* the engine variables of a run that does not drive the engine
EngineIdle ==
    /\ eng = NewEngine
    /\ shadow = NewEngine
    /\ op = "none"
    /\ controls = 0

-----------------------------------------------------------------------------
(* Specification of the position update                                    *)

InitPos ==
    /\ clock = 0
    /\ seg \in { PostInit(RawSegment(p, v, r, e, DefaultDimmer), 0) :
                    p \in StartPositions, v \in MoveSpeeds,
                    r \in MoveRanges, e \in BOOLEAN }
    /\ call = NoCall
    /\ FrameIdle
    /\ EngineIdle

\* one call of update_position(delta_time); the wall clock has advanced.
\* call.result keeps <<delta_time, segment before>> of the call before it
UpdatePositionCall ==
    \E delta_time \in DeltaTimes :
        /\ clock < MaxClock
        /\ clock' = clock + 1
        /\ seg' = UpdatePosition(seg, delta_time, clock')
        /\ call' = [op |-> "update_position", arg |-> delta_time,
                    pre |-> seg,
                    result |-> IF call.op = "update_position"
                               THEN <<call.arg, call.pre>>
                               ELSE <<>>]
        /\ UNCHANGED frameVars
        /\ UNCHANGED engVars

NextPos == UpdatePositionCall

SpecPos == InitPos /\ [][NextPos]_vars

-----------------------------------------------------------------------------
(* Specification of the serialization: a segment is constructed, moved by  *)
(* update_position and written to a dictionary that is read back           *)

\* the keys to_dict writes
DictKeys ==
    { "segment_id", "color", "transparency", "length", "move_speed",
      "move_range", "initial_position", "current_position", "is_edge_reflect",
      "dimmer_time" }

\* Segment.to_dict: the ten fields, without segment_start_time
ToDict(s) == [k \in DictKeys |-> s[k]]

\* Segment.from_dict at wall time t, of a dictionary that has the ten keys
\* and a dimmer_time in the list-of-transitions format: the constructor runs
\* (__post_init__ included) and a current_position of 0.0 is replaced by the
\* initial position once more
FromDict(data, t) ==
    LET segment ==
            PostInit([segment_id |-> data["segment_id"],
                      color |-> data["color"],
                      transparency |-> data["transparency"],
                      length |-> data["length"],
                      move_speed |-> data["move_speed"],
                      move_range |-> data["move_range"],
                      initial_position |-> data["initial_position"],
                      current_position |-> data["current_position"],
                      is_edge_reflect |-> data["is_edge_reflect"],
                      dimmer_time |-> data["dimmer_time"],
                      segment_start_time |-> 0], t)
    IN  [segment EXCEPT !.current_position =
                            IF @ = 0 THEN Led(segment.initial_position) ELSE @]

\* the segments that are serialized, as their constructor receives them:
\* initial_position 0 or 3, still or moving at 3 LED/s downwards or
\* 10 LED/s upwards
DictSegments ==
    { [RawParts(parts, p, d)
          EXCEPT !.initial_position = i, !.move_speed = v,
                 !.move_range = r, !.is_edge_reflect = e] :
        parts \in { << <<0>>, <<>>, <<>> >>, << <<1>>, <<0, 50>>, <<2, 1, 3>> >> },
        p \in { 0, Led(5) \div 2 },
        d \in { <<>>, << <<50, 0, 150>>, <<1000, 100, 0>> >> },
        i \in { 0, 3 },
        v \in { 0, -3 * SpeedScale, 10 * SpeedScale },
        r \in { <<0, 9>>, <<-3, 3>> },
        e \in BOOLEAN }

InitDict ==
    /\ clock = 0
    /\ seg \in { PostInit(raw, 0) : raw \in DictSegments }
    /\ call = NoCall
    /\ FrameIdle
    /\ EngineIdle

\* update_position(delta_time) of the segment, 0.2 s or 1 s after the last
MoveCall ==
    \E delta_time \in { 12, 60 } :
        /\ clock < MaxClock
        /\ clock' = clock + 1
        /\ seg' = UpdatePosition(seg, delta_time, clock')
        /\ call' = [op |-> "update_position", arg |-> delta_time,
                    pre |-> <<>>, result |-> <<>>]
        /\ UNCHANGED frameVars
        /\ UNCHANGED engVars

\* Segment.from_dict(seg.to_dict()): the segment itself is left alone, the
\* copy is call.result
RoundTripCall ==
    /\ call' = [op |-> "from_dict", arg |-> ToDict(seg), pre |-> seg,
                result |-> FromDict(ToDict(seg), clock)]
    /\ UNCHANGED <<seg, clock, frameVars>>
    /\ UNCHANGED engVars

NextDict == MoveCall \/ RoundTripCall

SpecDict == InitDict /\ [][NextDict]_vars

-----------------------------------------------------------------------------
(* Specification of scenario S3: one reflect segment updated frame by      *)
(* frame.  Here the clock counts the updates, each 1/TargetFps second, and *)
(* call.result logs the clock of every update that turned the segment.     *)

\* update_position calls of the bounce run: more than two seconds
MaxBounceUpdates == 130

\* the segment of S3: one LED at 0, +10 LED/s, reflecting in [0, 9]
BounceSegment ==
    PostInit(RawSegment(0, 10 * SpeedScale, <<0, 9>>, TRUE, DefaultDimmer), 0)

InitBounce ==
    /\ clock = 0
    /\ seg = BounceSegment
    /\ call = NoCall
    /\ FrameIdle
    /\ EngineIdle

\* update_position(1/60), one frame later
BounceUpdateCall ==
    /\ clock < MaxBounceUpdates
    /\ clock' = clock + 1
    /\ seg' = UpdatePosition(seg, 1, clock')
    /\ call' = [op |-> "update_position", arg |-> 1, pre |-> seg,
                result |-> IF (seg'.move_speed > 0) # (seg.move_speed > 0)
                           THEN Append(call.result, clock')
                           ELSE call.result]
    /\ UNCHANGED frameVars
    /\ UNCHANGED engVars

NextBounce == BounceUpdateCall

SpecBounce == InitBounce /\ [][NextBounce]_vars

-----------------------------------------------------------------------------
(* Specification of the dimmer                                             *)

InitDim ==
    /\ clock \in StartTimes
    /\ seg \in { PostInit(RawSegment(0, 0, <<0, 9>>, TRUE, d), clock) :
                    d \in DimmerInputs }
    /\ call = NoCall
    /\ FrameIdle
    /\ EngineIdle

\* one call of get_brightness_at_time(current_time)
GetBrightnessCall ==
    \E current_time \in SampleTimes :
        /\ call' = [op |-> "get_brightness_at_time", arg |-> current_time,
                    pre |-> seg,
                    result |-> GetBrightnessAtTime(seg, current_time)]
        /\ UNCHANGED <<seg, clock>>
        /\ UNCHANGED frameVars
        /\ UNCHANGED engVars

NextDim == GetBrightnessCall

SpecDim == InitDim /\ [][NextDim]_vars

-----------------------------------------------------------------------------
(* Specification of one frame: renders into a zeroed buffer, then the      *)
(* master brightness                                                       *)

InitFrame == SegmentIdle /\ FrameIdle /\ EngineIdle

\* one call of render_to_led_array on some segment, palette and time
RenderCall ==
    \E s \in RenderSegments, palette \in Palettes, current_time \in RenderTimes :
        /\ frame_stage = "rendering"
        /\ renders < MaxRenders
        /\ led_array' = RenderToLedArray(s, palette, current_time, led_array)
        /\ renders' = renders + 1
        /\ UNCHANGED frame_stage
        /\ UNCHANGED segVars
        /\ UNCHANGED engVars

\* the master brightness is applied and the frame goes out
MasterBrightnessCall ==
    \E master_brightness \in MasterLevels :
        /\ frame_stage = "rendering"
        /\ led_array' = ApplyMasterBrightnessArray(led_array, master_brightness)
        /\ frame_stage' = "emitted"
        /\ UNCHANGED renders
        /\ UNCHANGED segVars
        /\ UNCHANGED engVars

\* the next frame starts from a zeroed buffer
NewFrame ==
    /\ frame_stage = "emitted"
    /\ led_array' = ZeroFrame
    /\ frame_stage' = "rendering"
    /\ renders' = 0
    /\ UNCHANGED segVars
    /\ UNCHANGED engVars

NextFrame == RenderCall \/ MasterBrightnessCall \/ NewFrame

SpecFrame == InitFrame /\ [][NextFrame]_vars

-----------------------------------------------------------------------------
(* Specification of single calls: a run is one call of a render or color   *)
(* function on inputs of its own, recorded in call; led_array holds the    *)
(* array the call leaves.                                                  *)

\* ColorUtils.apply_transparency: transparency in hundredths, clamped to
\* [0, 1]; int(c * opacity) on every channel
ApplyTransparency(base_color, transparency) ==
    LET opacity == Percent - Max(0, Min(Percent, transparency))
    IN  [ch \in 1..3 |-> Trunc(base_color[ch] * opacity, Percent)]

\* ColorUtils.apply_brightness: brightness_factor a fraction, clamped to
\* [0, 1]; int(c * brightness_factor) on every channel
ApplyBrightness(color, brightness_factor) ==
    LET factor == ClampUnit(brightness_factor[1], brightness_factor[2])
    IN  [ch \in 1..3 |-> Trunc(color[ch] * factor[1], factor[2])]

\* ColorUtils.calculate_transition_color: progress a fraction, clamped
CalculateTransitionColor(from_color, to_color, progress) ==
    Blend(from_color, to_color, ClampUnit(progress[1], progress[2]))

\* ColorUtils.add_colors_to_led_array: the clamped color is added to the LED
\* (0-based) and the sum clamped; an index outside the array changes nothing
AddColorsToLedArray(array, led_index, color) ==
    IF led_index < 0 \/ led_index >= Len(array)
    THEN array
    ELSE [array EXCEPT ![led_index + 1] =
             [ch \in 1..3 |->
                 ClampChannel(@[ch] + ClampChannel(color[ch]))]]

\* ColorUtils.validate_rgb_color
ValidateRgbColor(color) == [ch \in 1..3 |-> ClampChannel(color[ch])]

\* ColorUtils.calculate_segment_color: the color is clamped, truncated after
\* the transparency, truncated again after the brightness, and clamped
CalculateSegmentColor(base_color, transparency, brightness_factor) ==
    ValidateRgbColor(
        ApplyBrightness(
            ApplyTransparency(ValidateRgbColor(base_color), transparency),
            brightness_factor))

\* the color of part i (1-based) on the fallback path
FallbackPartColor(s, palette, i, brightness) ==
    CalculateSegmentColor(
        BaseColor(palette, IF i <= Len(s.color) THEN s.color[i] ELSE 0),
        IF i <= Len(s.transparency) THEN s.transparency[i] ELSE 0,
        brightness)

\* the fallback loop over the parts: length[i] copies of each part's color
RECURSIVE FallbackParts(_, _, _, _, _)
FallbackParts(s, palette, brightness, i, acc) ==
    IF i > Len(s.length) THEN acc
    ELSE FallbackParts(s, palette, brightness, i + 1,
             acc \o [k \in 1..Max(0, s.length[i]) |->
                         FallbackPartColor(s, palette, i, brightness)])

\* the fallback loop over the colors that have no length: one LED each
RECURSIVE FallbackExtras(_, _, _, _, _)
FallbackExtras(s, palette, brightness, i, acc) ==
    IF i > Len(s.color) THEN acc
    ELSE FallbackExtras(s, palette, brightness, i + 1,
             Append(acc, FallbackPartColor(s, palette, i, brightness)))

\* get_led_colors_with_timing, fallback path
GetLedColorsFallback(s, palette, current_time) ==
    IF s.color = <<>> \/ palette = <<>>
    THEN <<>>
    ELSE LET brightness == GetBrightnessAtTime(s, current_time)
         IN  IF brightness[1] <= 0
             THEN <<>>
             ELSE FallbackExtras(s, palette, brightness, Len(s.length) + 1,
                      FallbackParts(s, palette, brightness, 1, <<>>))

\* get_led_colors_with_timing_fast (no segment is near the capacity that
\* only the render has)
GetLedColorsFast(s, palette, current_time) ==
    IF s.color = <<>> \/ palette = <<>>
    THEN <<>>
    ELSE LET brightness == GetBrightnessAtTime(s, current_time)
         IN  IF brightness[1] <= 0
             THEN <<>>
             ELSE SegmentColors(s, palette, brightness)

\* the segments whose colors are asked for
ColorSegments ==
    { PostInit(RawParts(parts, 0, d), 0) :
        parts \in RenderParts \cup { << <<0>>, <<50>>, <<1>> >> },
        d \in RenderDimmers }

\* the times the colors are asked for: brightness 0, 0.5 and 0.8 on the ramp
ColorTimes == { 0, 500, 800 }

\* the arrays a single render is given: zeroed, and already lit
BaseArrays ==
    { ZeroFrame, [led \in 1..LedCount |-> <<10, 250, 0>>] }

\* colors given to the color functions: in range, and with channels out of
\* range
InputColors ==
    { Black, <<255, 0, 0>>, <<120, 121, 7>>, <<300, -20, 255>>, <<-300, 0, 600>> }

\* transparency values given to apply_transparency, in hundredths
TransparencyInputs == { -50, 0, 25, 50, 100, 150 }

\* brightness factors and transition progress values, as fractions
FactorInputs == { <<-1, 2>>, <<0, 1>>, <<1, 4>>, <<1, 2>>, <<1, 1>>, <<3, 2>> }

\* LED indexes given to add_colors_to_led_array
LedIndexInputs == { -1, 0, LedCount - 1, LedCount }

InitColor == SegmentIdle /\ FrameIdle /\ EngineIdle

\* the segments of a single render: those of the frame runs, and a segment
\* of one LED
SingleRenderSegments ==
    RenderSegments \cup
        { PostInit(RawParts(<< <<0>>, <<0>>, <<1>> >>, p, d), 0) :
            p \in RenderPositions, d \in RenderDimmers }

\* render_to_led_array(palette, current_time, led_array) on one segment
RenderOnceCall ==
    \E s \in SingleRenderSegments, palette \in Palettes,
       current_time \in RenderTimes, base \in BaseArrays :
        /\ call = NoCall
        /\ led_array' = RenderToLedArray(s, palette, current_time, base)
        /\ call' = [op |-> "render_to_led_array",
                    arg |-> <<palette, current_time>>,
                    pre |-> s, result |-> base]
        /\ UNCHANGED <<seg, clock, frame_stage, renders>>
        /\ UNCHANGED engVars

\* the segments rendered into one frame: one or two parts, on a LED or
\* between two LEDs, on the ramp or at full brightness
FrameSegments ==
    { PostInit(RawParts(parts, p, DefaultDimmer), 0) :
        parts \in { << <<0>>, <<0>>, <<2>> >>, << <<0, 1>>, <<0, 50>>, <<1, 2>> >> },
        p \in { 0, Led(1) + PosScale \div 2 } }
    \cup
    { PostInit(RawParts(<< <<0>>, <<0>>, <<2>> >>, p, << <<1000, 100, 100>> >>), 0) :
        p \in { 0, Led(1) + PosScale \div 2 } }

\* segments of one frame
FrameSize == 3

\* the renders of one frame: render_to_led_array of each segment of the
\* list, in the order of the list, into the same array at the same time
RECURSIVE RenderInOrder(_, _, _, _)
RenderInOrder(segments, palette, current_time, array) ==
    IF segments = <<>> THEN array
    ELSE RenderInOrder(Tail(segments), palette, current_time,
             RenderToLedArray(Head(segments), palette, current_time, array))

\* render_to_led_array(palette, current_time, led_array) on each segment of
\* a list, into a zeroed array
RenderSegmentsCall ==
    \E segments \in [1..FrameSize -> FrameSegments], palette \in Palettes,
       current_time \in RenderTimes :
        /\ call = NoCall
        /\ led_array' = RenderInOrder(segments, palette, current_time, ZeroFrame)
        /\ call' = [op |-> "render_segments",
                    arg |-> <<palette, current_time>>,
                    pre |-> segments, result |-> ZeroFrame]
        /\ UNCHANGED <<seg, clock, frame_stage, renders>>
        /\ UNCHANGED engVars

\* <<color, transparency, length>> lists given to the constructor: equal
\* lengths, short transparency and length, all empty, transparency and
\* length longer than color
ConstructParts ==
    { << <<0, 1>>, <<0, 50>>, <<1, 2>> >>,
      << <<1, 7, 0>>, <<50>>, <<1>> >>,
      << <<>>, <<>>, <<>> >>,
      << <<1>>, <<0, 50>>, <<2, 1, 3>> >>,
      << <<>>, <<25, 0>>, <<>> >> }

\* Segment(...) at wall time t: the dataclass constructor runs __post_init__
ConstructCall ==
    \E parts \in ConstructParts, dimmer \in DimmerInputs, t \in StartTimes :
        /\ call = NoCall
        /\ clock' = t
        /\ seg' = PostInit(RawParts(parts, 0, dimmer), t)
        /\ call' = [op |-> "construct", arg |-> t,
                    pre |-> RawParts(parts, 0, dimmer), result |-> <<>>]
        /\ UNCHANGED frameVars
        /\ UNCHANGED engVars

\* channels of the frames given to apply_colors_to_array
MasterChannels == { 0, 51, 153, 255 }

\* the frames: one color on LED 0, its channels rotated on the other LEDs
MasterFrames ==
    { [led \in 1..LedCount |->
          IF led = 1 THEN <<r, g, b>> ELSE <<b, r, g>>] :
        r \in MasterChannels, g \in MasterChannels, b \in MasterChannels }

\* master_brightness values given to apply_colors_to_array
MasterValues == { 0, 1, 128, 155, 254, 255 }

\* apply_colors_to_array(led_colors, master_brightness)
ApplyColorsToArrayCall ==
    \E led_colors \in MasterFrames, master_brightness \in MasterValues :
        /\ call = NoCall
        /\ led_array' = ApplyColorsToArray(led_colors, master_brightness)
        /\ call' = [op |-> "apply_colors_to_array",
                    arg |-> master_brightness,
                    pre |-> <<>>, result |-> led_colors]
        /\ UNCHANGED <<seg, clock, frame_stage, renders>>
        /\ UNCHANGED engVars

\* apply_transparency(base_color, transparency)
ApplyTransparencyCall ==
    \E base_color \in InputColors, transparency \in TransparencyInputs :
        /\ call = NoCall
        /\ call' = [op |-> "apply_transparency",
                    arg |-> <<base_color, transparency>>,
                    pre |-> <<>>,
                    result |-> ApplyTransparency(base_color, transparency)]
        /\ UNCHANGED <<seg, clock, frameVars>>
        /\ UNCHANGED engVars

\* apply_brightness(color, brightness_factor)
ApplyBrightnessCall ==
    \E color \in InputColors, brightness_factor \in FactorInputs :
        /\ call = NoCall
        /\ call' = [op |-> "apply_brightness",
                    arg |-> <<color, brightness_factor>>,
                    pre |-> <<>>,
                    result |-> ApplyBrightness(color, brightness_factor)]
        /\ UNCHANGED <<seg, clock, frameVars>>
        /\ UNCHANGED engVars

\* calculate_transition_color(from_color, to_color, progress)
CalculateTransitionColorCall ==
    \E from_color \in InputColors, to_color \in InputColors,
       progress \in FactorInputs :
        /\ call = NoCall
        /\ call' = [op |-> "calculate_transition_color",
                    arg |-> <<from_color, to_color, progress>>,
                    pre |-> <<>>,
                    result |-> CalculateTransitionColor(from_color, to_color, progress)]
        /\ UNCHANGED <<seg, clock, frameVars>>
        /\ UNCHANGED engVars

\* add_colors_to_led_array(led_array, led_index, color)
AddColorsToLedArrayCall ==
    \E base \in BaseArrays, led_index \in LedIndexInputs,
       color \in InputColors :
        /\ call = NoCall
        /\ led_array' = AddColorsToLedArray(base, led_index, color)
        /\ call' = [op |-> "add_colors_to_led_array",
                    arg |-> <<led_index, color>>,
                    pre |-> <<>>, result |-> base]
        /\ UNCHANGED <<seg, clock, frame_stage, renders>>
        /\ UNCHANGED engVars

\* get_led_colors_with_timing(palette, current_time): the fast path, or the
\* fallback path when the fast one has raised
GetLedColorsCall ==
    \E s \in ColorSegments, palette \in Palettes, current_time \in ColorTimes,
       fast \in BOOLEAN :
        /\ call = NoCall
        /\ call' = [op |-> "get_led_colors_with_timing",
                    arg |-> <<palette, current_time, fast>>,
                    pre |-> s,
                    result |-> IF fast
                               THEN GetLedColorsFast(s, palette, current_time)
                               ELSE GetLedColorsFallback(s, palette,
                                                         current_time)]
        /\ UNCHANGED <<seg, clock, frameVars>>
        /\ UNCHANGED engVars

NextColor ==
    \/ ConstructCall
    \/ RenderSegmentsCall
    \/ GetLedColorsCall
    \/ RenderOnceCall
    \/ ApplyColorsToArrayCall
    \/ ApplyTransparencyCall
    \/ ApplyBrightnessCall
    \/ CalculateTransitionColorCall
    \/ AddColorsToLedArrayCall

SpecColor == InitColor /\ [][NextColor]_vars

-----------------------------------------------------------------------------
(* Specification of the engine: control operations and scheduler ticks.    *)
(* The twin engine runs the same operations except the staging ones, and   *)
(* is aligned with the engine again at each commit_pattern.                *)

InitEng ==
    /\ SegmentIdle
    /\ FrameIdle
    /\ EngineIdle

\* one more control event is applied, within the bound
Control ==
    /\ controls < MaxControls
    /\ controls' = controls + 1

LoadScenesOp ==
    /\ eng' = LoadScenes(eng)
    /\ shadow' = LoadScenes(shadow)
    /\ Control
    /\ op' = "load_scenes"
    /\ UNCHANGED <<segVars, frameVars>>

CacheChangeSceneOp ==
    \E id \in ControlIds :
        /\ eng' = CacheChangeScene(eng, id)
        /\ Control
        /\ op' = "cache_change_scene"
        /\ UNCHANGED <<shadow, segVars, frameVars>>

CacheChangeEffectOp ==
    \E id \in ControlIds :
        /\ eng' = CacheChangeEffect(eng, id)
        /\ Control
        /\ op' = "cache_change_effect"
        /\ UNCHANGED <<shadow, segVars, frameVars>>

CacheChangePaletteOp ==
    \E id \in ControlIds :
        /\ eng' = CacheChangePalette(eng, id)
        /\ Control
        /\ op' = "cache_change_palette"
        /\ UNCHANGED <<shadow, segVars, frameVars>>

CommitPatternOp ==
    /\ eng' = CommitPattern(eng)
    /\ shadow' = CommitPattern(eng)
    /\ Control
    /\ op' = "commit_pattern"
    /\ UNCHANGED <<segVars, frameVars>>

SetDissolvePatternOp ==
    \E id \in ControlIds :
        /\ eng' = SetDissolvePattern(eng, id)
        /\ shadow' = SetDissolvePattern(shadow, id)
        /\ Control
        /\ op' = "set_dissolve_pattern"
        /\ UNCHANGED <<segVars, frameVars>>

SetSpeedOp ==
    \E p \in SpeedInputs :
        /\ eng' = SetSpeed(eng, p)
        /\ shadow' = SetSpeed(shadow, p)
        /\ Control
        /\ op' = "set_speed"
        /\ UNCHANGED <<segVars, frameVars>>

SetMasterBrightnessOp ==
    \E b \in MasterInputs :
        /\ eng' = SetMasterBrightness(eng, b)
        /\ shadow' = SetMasterBrightness(shadow, b)
        /\ Control
        /\ op' = "set_master_brightness"
        /\ UNCHANGED <<segVars, frameVars>>

PauseOp ==
    /\ eng' = Pause(eng)
    /\ shadow' = Pause(shadow)
    /\ Control
    /\ op' = "pause"
    /\ UNCHANGED <<segVars, frameVars>>

ResumeOp ==
    /\ eng' = Resume(eng)
    /\ shadow' = Resume(shadow)
    /\ Control
    /\ op' = "resume"
    /\ UNCHANGED <<segVars, frameVars>>

TickOp ==
    /\ eng.now < MaxTicks * TickMs
    /\ eng' = Tick(eng)
    /\ shadow' = Tick(shadow)
    /\ op' = "tick"
    /\ UNCHANGED <<controls, segVars, frameVars>>

NextEng ==
    \/ LoadScenesOp
    \/ CacheChangeSceneOp
    \/ CacheChangeEffectOp
    \/ CacheChangePaletteOp
    \/ CommitPatternOp
    \/ SetDissolvePatternOp
    \/ SetSpeedOp
    \/ SetMasterBrightnessOp
    \/ PauseOp
    \/ ResumeOp
    \/ TickOp

SpecEng == InitEng /\ [][NextEng]_vars

-----------------------------------------------------------------------------
(* Properties of update_position                                           *)

RangeLo(s) == Min(s.move_range[1], s.move_range[2])

RangeHi(s) == Max(s.move_range[1], s.move_range[2])

InMoveRange(s) ==
    /\ Led(RangeLo(s)) <= s.current_position
    /\ s.current_position <= Led(RangeHi(s))

Updated == call.op = "update_position"

\* the update was not the no-op of a still segment
Moved == Updated /\ ~BelowSpeedThreshold(call.pre.move_speed)

\* move_speed * delta_time of the last update
LastStep == call.pre.move_speed * call.arg

\* C2, as claimed: in reflect mode lo <= current_position <= hi holds after
\* every call of update_position.
C2_ReflectInRangeAlways ==
    (Updated /\ seg.is_edge_reflect /\ Len(seg.move_range) >= 2)
        => InMoveRange(seg)

\* C2, amended: in reflect mode lo <= current_position <= hi holds after every
\* call of update_position on a segment with |move_speed| >= 0.001 and
\* hi >= -1000.
C2_ReflectInRangeWhenMoving ==
    (Moved /\ seg.is_edge_reflect /\ Len(seg.move_range) >= 2
           /\ RangeHi(seg) >= PositionFloor)
        => InMoveRange(seg)

\* a reflect segment has overshot the upper bound and has been clamped there
C2_Witness ==
    /\ Moved /\ seg.is_edge_reflect /\ Len(seg.move_range) >= 2
    /\ InMoveRange(call.pre)
    /\ call.pre.current_position + LastStep > Led(RangeHi(seg))
    /\ seg.current_position = Led(RangeHi(seg))
    /\ seg.move_speed < 0

\* C3, as claimed: in wrap mode lo <= current_position <= hi holds after every
\* call of update_position, and an empty range pins the position to lo.
C3_WrapInRangeAlways ==
    (Updated /\ ~seg.is_edge_reflect /\ Len(seg.move_range) >= 2)
        => InMoveRange(seg)

\* C3, amended: in wrap mode lo <= current_position <= hi holds after every
\* call of update_position on a segment with |move_speed| >= 0.001 and
\* hi >= -1000; with hi = lo the position is lo.
C3_WrapInRangeWhenMoving ==
    (Moved /\ ~seg.is_edge_reflect /\ Len(seg.move_range) >= 2
           /\ RangeHi(seg) >= PositionFloor)
        => /\ InMoveRange(seg)
           /\ RangeHi(seg) = RangeLo(seg)
                 => seg.current_position = Led(RangeLo(seg))

\* a wrap segment has stepped more than a whole range past the upper bound
\* and is back inside
C3_Witness ==
    /\ Moved /\ ~seg.is_edge_reflect /\ Len(seg.move_range) >= 2
    /\ RangeHi(seg) > RangeLo(seg)
    /\ call.pre.current_position + LastStep
           > Led(RangeHi(seg)) + Led(RangeHi(seg) - RangeLo(seg))
    /\ InMoveRange(seg)
    /\ seg.current_position > Led(RangeLo(seg))

\* the state of scenario S4 before the update: wrap, range [0, 9], position 9,
\* a step of +2 LEDs
WrapScenario ==
    /\ Updated
    /\ ~call.pre.is_edge_reflect
    /\ call.pre.move_range = <<0, 9>>
    /\ call.pre.current_position = Led(9)
    /\ ~BelowSpeedThreshold(call.pre.move_speed)
    /\ LastStep = Led(2)

\* C10, as claimed: the wrap segment of S4 ends at position 1.
C10_WrapEndsAtOne == WrapScenario => seg.current_position = Led(1)

\* C10, amended: the wrap segment of S4 ends at position 2, which is
\* lo + ((9 + 2 - hi) mod (hi - lo)).
C10_WrapEndsAtTwo == WrapScenario => seg.current_position = Led(2)

\* the update of S4 has been made
C10_Witness == WrapScenario /\ seg.move_range = <<0, 9>> /\ clock = 1

\* the last two calls were update_position(dt) and update_position(-dt), at
\* one move_speed throughout
RoundTrip ==
    /\ Updated
    /\ call.result # <<>>
    /\ call.arg = -call.result[1]
    /\ call.arg # 0
    /\ call.result[2].move_speed = call.pre.move_speed
    /\ call.pre.move_speed = seg.move_speed

\* the segment before the two calls
BeforeRoundTrip == call.result[2]

\* the position is not below 0 and, when the segment has a range, inside it
InsideBounds(s, position) ==
    /\ position >= 0
    /\ Len(s.move_range) >= 2 =>
          /\ Led(RangeLo(s)) <= position
          /\ position <= Led(RangeHi(s))

\* C12, as claimed: update_position(dt) then update_position(-dt) at constant
\* move_speed returns current_position to within +/-1 of its value before.
C12_RoundTripWithinOne ==
    RoundTrip =>
        Abs(seg.current_position - BeforeRoundTrip.current_position) <= Led(1)

\* C12, amended: update_position(dt) then update_position(-dt) at constant
\* move_speed returns current_position to its value before the two calls
\* when that value and the position in between are not below 0 and lie
\* inside move_range.
C12_RoundTripInsideRange ==
    (/\ RoundTrip
     /\ InsideBounds(BeforeRoundTrip, BeforeRoundTrip.current_position)
     /\ InsideBounds(BeforeRoundTrip,
                     BeforeRoundTrip.current_position
                         - BeforeRoundTrip.move_speed * call.arg))
        => seg.current_position = BeforeRoundTrip.current_position

\* a moving segment has gone two LEDs up inside its range and come back
C12_Witness ==
    /\ RoundTrip
    /\ ~BelowSpeedThreshold(seg.move_speed)
    /\ InsideBounds(BeforeRoundTrip, BeforeRoundTrip.current_position)
    /\ call.pre.current_position = BeforeRoundTrip.current_position + Led(2)
    /\ InsideBounds(BeforeRoundTrip, call.pre.current_position)
    /\ seg.current_position = BeforeRoundTrip.current_position

\* C13, as claimed: update_position(0), the update of a frame at
\* speed_percent = 0, leaves current_position unchanged.
C13_ZeroDeltaFreezes ==
    (Updated /\ call.arg = 0)
        => seg.current_position = call.pre.current_position

\* the segment with the bounds of its move_range exchanged
SwappedRange(s) ==
    [s EXCEPT !.move_range = <<s.move_range[2], s.move_range[1]>>]

\* C14, as claimed: update_position on a segment whose move_range is given as
\* [a, b] with a > b ends with the current_position, the move_speed and the
\* segment_start_time it ends with for move_range [b, a].
C14_SwappedRangeSameResult ==
    (/\ Updated
     /\ Len(call.pre.move_range) >= 2
     /\ call.pre.move_range[1] > call.pre.move_range[2])
        => LET other == UpdatePosition(SwappedRange(call.pre), call.arg, clock)
           IN  /\ seg.current_position = other.current_position
               /\ seg.move_speed = other.move_speed
               /\ seg.segment_start_time = other.segment_start_time

\* the clocks of the updates that turned the segment of S3, oldest first
Turns == call.result

\* the last update turned the segment for the k-th time
TurnedNow(k) == Updated /\ Len(Turns) = k /\ Turns[k] = clock

\* C11, as claimed: one second of updates after the segment of S3 has reached
\* position 9 it is at position 0.
C11_AtZeroOneSecondAfterTurn ==
    (Len(Turns) >= 1 /\ clock = Turns[1] + TargetFps)
        => seg.current_position = 0

\* C11, amended: the segment of S3 reaches position 9 within 1 s of updates,
\* where move_speed becomes negative and segment_start_time is reset; within
\* another 1 s of updates it reaches position 0 and turns again.
C11_BounceWithinOneSecond ==
    /\ Len(Turns) = 0 =>
          /\ clock < TargetFps
          /\ seg.move_speed > 0
          /\ seg.current_position < Led(9)
          /\ seg.segment_start_time = 0
    /\ TurnedNow(1) =>
          /\ seg.current_position = Led(9)
          /\ seg.move_speed = -call.pre.move_speed
          /\ seg.move_speed < 0
          /\ seg.segment_start_time = clock
    /\ Len(Turns) = 1 =>
          /\ clock < Turns[1] + TargetFps
          /\ seg.move_speed < 0
    /\ TurnedNow(2) =>
          /\ seg.current_position = 0
          /\ seg.move_speed > 0

\* the segment of S3 has gone up, turned at 9 and come back to 0
C11_Witness ==
    /\ TurnedNow(2)
    /\ seg.current_position = 0
    /\ call.pre.segment_start_time = Turns[1]
    /\ call.pre.current_position > 0

\* the last update was one of a moving reflect segment with lo < hi, the
\* range not below the position floor
ReflectUpdated ==
    /\ Moved
    /\ seg.is_edge_reflect
    /\ Len(seg.move_range) >= 2
    /\ RangeLo(seg) < RangeHi(seg)
    /\ RangeLo(seg) >= PositionFloor

\* the update has left the segment at the bound, moving as given, with the
\* dimmer timing reset at the time of the call
TurnedAt(bound, speed) ==
    /\ seg.current_position = Led(bound)
    /\ seg.move_speed = speed
    /\ seg.segment_start_time = clock

\* C18: in reflect mode every update_position that ends with
\* current_position <= lo clamps the position to lo, leaves
\* move_speed = +|move_speed| and resets the dimmer timing; ending with
\* current_position >= hi it clamps to hi, leaves -|move_speed| and resets.
C18_ReflectAtBoundResets ==
    ReflectUpdated =>
        /\ seg.current_position <= Led(RangeLo(seg))
               => TurnedAt(RangeLo(seg), Abs(call.pre.move_speed))
        /\ seg.current_position >= Led(RangeHi(seg))
               => TurnedAt(RangeHi(seg), -Abs(call.pre.move_speed))

\* C18 without the reset: the clamp and the sign of move_speed at the
\* bounds, and the reset whenever the update changed the sign of move_speed
C18_ReflectAtBoundTurns ==
    ReflectUpdated =>
        /\ seg.current_position <= Led(RangeLo(seg))
               => /\ seg.current_position = Led(RangeLo(seg))
                  /\ seg.move_speed = Abs(call.pre.move_speed)
        /\ seg.current_position >= Led(RangeHi(seg))
               => /\ seg.current_position = Led(RangeHi(seg))
                  /\ seg.move_speed = -Abs(call.pre.move_speed)
        /\ (seg.move_speed > 0) # (call.pre.move_speed > 0)
               => seg.segment_start_time = clock

\* the position is a whole number of LEDs
OnLed(position) == position % PosScale = 0

\* C19: update_position moves current_position in whole-LED steps only: a
\* segment on a whole LED is on a whole LED after every update, the rest of
\* the movement being kept apart from current_position.
C19_WholeLedSteps ==
    (Updated /\ OnLed(call.pre.current_position))
        => OnLed(seg.current_position)

\* C19 for the steps move_speed * delta_time that are whole LEDs
C19_WholeStepsStayOnLed ==
    (Updated /\ OnLed(call.pre.current_position) /\ OnLed(LastStep))
        => OnLed(seg.current_position)

\* the position before the last update plus its step
SteppedPosition == call.pre.current_position + LastStep

\* the last update was one of a moving segment whose step ended strictly
\* inside its range lo < hi
SteppedInside ==
    /\ Moved
    /\ Len(call.pre.move_range) >= 2
    /\ call.pre.move_range[1] < call.pre.move_range[2]
    /\ Led(call.pre.move_range[1]) < SteppedPosition
    /\ SteppedPosition < Led(call.pre.move_range[2])

\* C27: an update whose step stays strictly inside the range sets
\* current_position to p + move_speed * dt and changes nothing else of the
\* segment, whatever the range.
C27_InsideStepIsPlain ==
    SteppedInside
        => seg = [call.pre EXCEPT !.current_position = SteppedPosition]

\* C27 for the steps that end at a position of 0 or more
C27_InsideStepIsPlainFromZeroOn ==
    (SteppedInside /\ SteppedPosition >= 0)
        => seg = [call.pre EXCEPT !.current_position = SteppedPosition]

-----------------------------------------------------------------------------
(* Properties of the serialization                                         *)

RoundTripped == call.op = "from_dict"

\* C29: the segment read back from the dictionary of a constructed and moved
\* segment has the same ten serialized fields as the segment.
C29_RoundTrip ==
    RoundTripped => \A k \in DictKeys : call.result[k] = call.pre[k]

\* C29 for every field but the position, and for the position when it is
\* not 0.0
C29_RoundTripButPositionZero ==
    RoundTripped =>
        /\ \A k \in DictKeys \ { "current_position" } :
               call.result[k] = call.pre[k]
        /\ call.pre.current_position # 0
               => call.result.current_position = call.pre.current_position
        /\ call.pre.current_position = 0
               => call.result.current_position
                      = Led(call.pre.initial_position)

-----------------------------------------------------------------------------
(* Properties of the frame                                                 *)

\* C1: a frame built from a zeroed buffer by any renders and then scaled by
\* the master brightness has exactly led_count triples, every channel an
\* integer in [0, 255].
C1_FrameWellFormed ==
    frame_stage = "emitted"
        => /\ DOMAIN led_array = 1..LedCount
           /\ \A led \in 1..LedCount :
                 /\ DOMAIN led_array[led] = 1..3
                 /\ \A ch \in 1..3 : led_array[led][ch] \in 0..255

\* two segments have been rendered over each other, a green channel has
\* saturated (no single color has green 255) and the frame has gone out
C1_Witness ==
    /\ frame_stage = "emitted"
    /\ renders = 2
    /\ \E led \in 1..LedCount : led_array[led][2] = 255

-----------------------------------------------------------------------------
(* Properties of single render and color calls                             *)

Rendered == call.op = "render_to_led_array"

\* the color index is negative or not below the palette size
OutOfPalette(palette, color_index) ==
    color_index < 0 \/ color_index >= Len(palette)

\* the segment with every color index outside the palette pointed at the
\* entry that BlackAppended adds
BlackIndexed(s, palette) ==
    [s EXCEPT !.color =
        [i \in DOMAIN @ |->
            IF OutOfPalette(palette, @[i]) THEN Len(palette) ELSE @[i]]]

BlackAppended(palette) == Append(palette, Black)

\* C15: a part whose color index is outside the palette renders as a part of
\* a black palette color would: it keeps its length in the expanded run and
\* adds nothing to any LED channel.
C15_OutOfRangeIsBlack ==
    Rendered =>
        LET s == call.pre
            palette == call.arg[1]
            brightness == GetBrightnessAtTime(s, call.arg[2])
        IN  /\ led_array =
                   RenderToLedArray(BlackIndexed(s, palette),
                                    BlackAppended(palette),
                                    call.arg[2], call.result)
            /\ SegmentColors(s, palette, brightness) =
                   SegmentColors(BlackIndexed(s, palette),
                                 BlackAppended(palette), brightness)

\* a part of two LEDs with color index -1 has been rendered at LED 0 in front
\* of a colored part: two LEDs stay dark, the third is lit
C15_Witness ==
    /\ Rendered
    /\ call.pre.color = <<-1, 0>>
    /\ call.pre.length = <<2, 1>>
    /\ call.pre.current_position = 0
    /\ call.result = ZeroFrame
    /\ led_array[1] = Black
    /\ led_array[2] = Black
    /\ led_array[3] # Black

Mastered == call.op = "apply_colors_to_array"

\* C16: master brightness m applied to a frame is the identity at m = 255,
\* gives the all-zero frame at m = 0, and otherwise replaces every channel c
\* by c * m / 255 truncated toward zero.
C16_MasterScalesTruncated ==
    Mastered =>
        LET m == call.arg
            frame == call.result
        IN  led_array =
                [led \in 1..LedCount |->
                    [ch \in 1..3 |->
                        IF m = 255 THEN frame[led][ch]
                        ELSE IF m = 0 THEN 0
                        ELSE Trunc(frame[led][ch] * m, 255)]]

\* C16, away from the pairs of DoubleShortfall
C16_MasterScalesElsewhere ==
    (Mastered /\ call.arg # 155) => C16_MasterScalesTruncated

InByteRange(color) == \A ch \in 1..3 : color[ch] >= 0 /\ color[ch] <= 255

\* the call returned a color
ReturnsColor ==
    call.op \in {"apply_transparency", "apply_brightness",
                 "calculate_transition_color"}

\* add_colors_to_led_array has added to a LED of the array
AddedToLed ==
    /\ call.op = "add_colors_to_led_array"
    /\ call.arg[1] >= 0
    /\ call.arg[1] < LedCount

\* C17: apply_transparency, apply_brightness, calculate_transition_color and
\* the saturating add leave every channel in [0, 255], whatever the input
\* color and factor.
C17_OutputsClamped ==
    /\ ReturnsColor => InByteRange(call.result)
    /\ AddedToLed => InByteRange(led_array[call.arg[1] + 1])

\* C17 for the transition blend and the saturating add, and for
\* apply_transparency and apply_brightness on colors that are in range
C17_ClampedWhereValidated ==
    /\ call.op = "calculate_transition_color" => InByteRange(call.result)
    /\ AddedToLed => InByteRange(led_array[call.arg[1] + 1])
    /\ (ReturnsColor /\ InByteRange(call.arg[1])) => InByteRange(call.result)

\* the expanded colors of the rendered segment; none when the render returns
\* before expanding
RenderedColors ==
    LET s == call.pre
        brightness == GetBrightnessAtTime(s, call.arg[2])
    IN  IF call.arg[1] = <<>> \/ brightness[1] <= 0
        THEN <<>>
        ELSE SegmentColors(s, call.arg[1], brightness)

\* the rendered segment lies N LEDs or more to the left of LED 0
FarLeft ==
    /\ Rendered
    /\ Len(RenderedColors) > 0
    /\ call.pre.current_position <= -Led(Len(RenderedColors))

\* C22: a segment at current_position <= -N, N its number of expanded
\* colors, adds nothing to the frame.
C22_FarLeftAddsNothing ==
    FarLeft => led_array = call.result

\* what the render does at current_position <= -N: the render of the same
\* segment at position 0
C22_FarLeftRendersAtZero ==
    FarLeft =>
        led_array = RenderToLedArray([call.pre EXCEPT !.current_position = 0],
                                     call.arg[1], call.arg[2], call.result)

\* the rendered segment overlaps the left edge: -N < current_position < 0
OverLeftEdge ==
    /\ Rendered
    /\ Len(RenderedColors) > 0
    /\ call.pre.current_position < 0
    /\ call.pre.current_position > -Led(Len(RenderedColors))

\* |current_position| truncated to an integer
SkipCount == Trunc(Abs(call.pre.current_position), PosScale)

\* C23: at -N < current_position < 0 the first |current_position| (truncated)
\* expanded colors are dropped, the others are added unfaded from LED 0 on.
C23_LeftEdgeDropsAndPlacesAtZero ==
    OverLeftEdge =>
        \A led \in 1..LedCount :
            led_array[led] =
                IF SkipCount + led <= Len(RenderedColors)
                THEN AddColor(call.result[led], RenderedColors[SkipCount + led])
                ELSE call.result[led]

\* a segment of three LEDs in two colors has been rendered at position -1:
\* LED 0 carries its second color, LED 2 nothing
C23_Witness ==
    /\ OverLeftEdge
    /\ call.pre.current_position = Led(-1)
    /\ Len(RenderedColors) = 3
    /\ RenderedColors[1] # RenderedColors[2]
    /\ call.result = ZeroFrame
    /\ led_array[1] = RenderedColors[2]
    /\ led_array[1] # Black
    /\ led_array[3] = Black

\* the rendered segment starts on the array or right of it
FromLedOn ==
    /\ Rendered
    /\ Len(RenderedColors) > 0
    /\ call.pre.current_position >= 0

\* the fractional part f of the position, in 1/PosScale
PositionFraction == call.pre.current_position % PosScale

\* the factor on expanded color i (0-based) of N, in 1/PosScale:
\* max(0.1, f) on the first, max(0.1, 1 - f) on the last when N > 1 and f > 0
FadeFactor(i, n, f) ==
    IF n > 1 /\ f > 0 /\ i = 0
    THEN Max(PosScale \div MinFadeInv, f)
    ELSE IF n > 1 /\ f > 0 /\ i = n - 1
    THEN Max(PosScale \div MinFadeInv, PosScale - f)
    ELSE PosScale

\* the color times the factor, every channel truncated
TimesFactor(color, factor) ==
    [ch \in 1..3 |-> Trunc(color[ch] * factor, PosScale)]

\* C24: a segment of N > 1 expanded colors rendered at a position with
\* fractional part f > 0 has its first color multiplied by max(0.1, f), its
\* last by max(0.1, 1 - f), the others unchanged; with N = 1 or f = 0 no
\* color is faded.  (A segment at a negative position is rendered with
\* f = 0: every LED it touches gets an unfaded expanded color.)
C24_EdgeFade ==
    /\ FromLedOn =>
           \A led \in 1..LedCount :
               LET i == (led - 1) - call.pre.current_position \div PosScale
                   n == Len(RenderedColors)
               IN  led_array[led] =
                       IF i >= 0 /\ i < n
                       THEN AddColor(call.result[led],
                                TimesFactor(RenderedColors[i + 1],
                                            FadeFactor(i, n, PositionFraction)))
                       ELSE call.result[led]
    /\ (Rendered /\ Len(RenderedColors) > 0 /\ call.pre.current_position < 0) =>
           \A led \in 1..LedCount :
               \/ led_array[led] = call.result[led]
               \/ \E i \in DOMAIN RenderedColors :
                      led_array[led] = AddColor(call.result[led], RenderedColors[i])

\* three expanded colors have been rendered at position 1.05: the first is
\* at the floor of a tenth, the second is whole
C24_Witness ==
    /\ FromLedOn
    /\ call.pre.current_position = Led(1) + PosScale \div 20
    /\ Len(RenderedColors) = 3
    /\ call.result = ZeroFrame
    /\ RenderedColors[1] # Black
    /\ led_array[2] = TimesFactor(RenderedColors[1], PosScale \div MinFadeInv)
    /\ led_array[2] # RenderedColors[1]
    /\ led_array[3] = RenderedColors[2]

RenderedSegments == call.op = "render_segments"

\* the orders of the segments of a frame
Orders ==
    { o \in [1..FrameSize -> 1..FrameSize] :
        \A i, j \in 1..FrameSize : o[i] = o[j] => i = j }

\* what segment k of the frame adds to a channel of a LED: its render into
\* a zeroed array
Contribution(k, led, ch) ==
    RenderToLedArray(call.pre[k], call.arg[1], call.arg[2], ZeroFrame)[led][ch]

RECURSIVE ContributionSum(_, _, _)
ContributionSum(k, led, ch) ==
    IF k = 0 THEN 0
    ELSE Contribution(k, led, ch) + ContributionSum(k - 1, led, ch)

\* C30: the frame of segments rendered into a zeroed array at one instant
\* is the same for every order of the renders, each channel being
\* min(255, sum of the segments' contributions).
C30_OrderIndependent ==
    RenderedSegments =>
        /\ \A o \in Orders :
               RenderInOrder([i \in 1..FrameSize |-> call.pre[o[i]]],
                             call.arg[1], call.arg[2], ZeroFrame) = led_array
        /\ \A led \in 1..LedCount, ch \in 1..3 :
               led_array[led][ch] = Min(255, ContributionSum(FrameSize, led, ch))

\* three different segments were rendered, two of them light the same
\* channel of a LED, and the channel is saturated by the sum
C30_Witness ==
    /\ RenderedSegments
    /\ Cardinality({ call.pre[k] : k \in 1..FrameSize }) = FrameSize
    /\ \E led \in 1..LedCount, ch \in 1..3 :
           /\ ContributionSum(FrameSize, led, ch) > 255
           /\ Contribution(1, led, ch) > 0
           /\ Contribution(1, led, ch) + Contribution(2, led, ch) < 255
           /\ Contribution(3, led, ch) > 0
           /\ led_array[led][ch] = 255

GotColors == call.op = "get_led_colors_with_timing"

\* C28: get_led_colors_with_timing returns the same colors on its fast path
\* and on its fallback path.
C28_PathsAgree ==
    GotColors =>
        /\ call.result = GetLedColorsFast(call.pre, call.arg[1], call.arg[2])
        /\ call.result = GetLedColorsFallback(call.pre, call.arg[1], call.arg[2])

\* the palette has every channel in [0, 255], every part is opaque and has a
\* color of the palette or none
PlainColors ==
    /\ \A c \in DOMAIN call.arg[1] : InByteRange(call.arg[1][c])
    /\ \A i \in DOMAIN call.pre.transparency : call.pre.transparency[i] = 0

\* C28 for opaque parts over a palette in range: the two paths agree, the
\* fallback path truncating once only
C28_PathsAgreeOnPlainColors ==
    (GotColors /\ PlainColors) =>
        /\ call.result = GetLedColorsFast(call.pre, call.arg[1], call.arg[2])
        /\ call.result = GetLedColorsFallback(call.pre, call.arg[1], call.arg[2])

-----------------------------------------------------------------------------
(* Properties of get_brightness_at_time                                    *)

Sampled == call.op = "get_brightness_at_time"

ElapsedMs == call.arg - seg.segment_start_time

\* C8: for t > 0 the brightness at start + t equals the brightness one dimmer
\* cycle later.
C8_DimmerPeriodic ==
    (Sampled /\ ElapsedMs > 0)
        => call.result =
               GetBrightnessAtTime(seg, call.arg + TotalCycleMs(seg.dimmer_time))

\* a sample in the falling half of a two-transition cycle
C8_Witness ==
    /\ Sampled /\ ElapsedMs > 0
    /\ Len(seg.dimmer_time) = 2
    /\ ElapsedMs % TotalCycleMs(seg.dimmer_time) > seg.dimmer_time[1][1]
    /\ call.result \notin { <<0, 1>>, <<1, 1>> }

\* C9, as claimed: at an exact positive multiple of the dimmer cycle the
\* brightness is the end brightness of the last transition.
C9_CycleEndIsLastEnd ==
    (Sampled /\ ElapsedMs > 0 /\ ElapsedMs % TotalCycleMs(seg.dimmer_time) = 0)
        => call.result =
               ClampUnit(seg.dimmer_time[Len(seg.dimmer_time)][3], Percent)

\* the phase start of transition k: the durations before it
RECURSIVE PhaseStartMs(_, _)
PhaseStartMs(dimmer_time, k) ==
    IF k = 1 THEN 0
    ELSE PhaseStartMs(dimmer_time, k - 1) + Max(1, dimmer_time[k - 1][1])

PhaseEndMs(dimmer_time, k) ==
    PhaseStartMs(dimmer_time, k) + Max(1, dimmer_time[k][1])

\* the dimmer of scenario S2: one second up, one second down
RampUpDown == << <<1000, 0, 100>>, <<1000, 100, 0>> >>

\* C20: inside a dimmer cycle the brightness is that of the first phase k
\* with phase_ms <= phase_start + duration, namely
\* (start + (end - start) * progress) / 100 clamped to [0, 1] with
\* progress = (phase_ms - phase_start) / duration clamped to [0, 1]; the
\* dimmer [[1000,0,100],[1000,100,0]] gives 0.5 at 0.5 s and 1.0 at 1.0 s.
C20_PhaseFormula ==
    (Sampled /\ ElapsedMs >= 0)
        => LET d == seg.dimmer_time
               phase_ms == ElapsedMs % TotalCycleMs(d)
               k == CHOOSE i \in 1..Len(d) :
                        /\ phase_ms <= PhaseEndMs(d, i)
                        /\ \A j \in 1..(i - 1) : phase_ms > PhaseEndMs(d, j)
               duration == Max(1, d[k][1])
               progress == Max(0, Min(duration, phase_ms - PhaseStartMs(d, k)))
           IN  /\ call.result =
                      ClampUnit(d[k][2] * duration + (d[k][3] - d[k][2]) * progress,
                                Percent * duration)
               /\ (d = RampUpDown /\ ElapsedMs = 500) => call.result = <<1, 2>>
               /\ (d = RampUpDown /\ ElapsedMs = 1000) => call.result = <<1, 1>>

\* the ramp of S2 has been sampled half a second after the segment started
C20_Witness ==
    /\ Sampled
    /\ seg.dimmer_time = RampUpDown
    /\ ElapsedMs = 500
    /\ call.result = <<1, 2>>

-----------------------------------------------------------------------------
(* Properties of the construction                                          *)

Constructed == call.op = "construct"

\* the dimmer_time given to the constructor
GivenDimmer == call.pre.dimmer_time

\* every given phase is a triple with a duration of 1 ms or more
DurationsGiven ==
    /\ Constructed
    /\ GivenDimmer # <<>>
    /\ \A k \in DOMAIN GivenDimmer :
           Len(GivenDimmer[k]) = 3 /\ GivenDimmer[k][1] >= 1

\* phase k of the constructed segment lasts duration ms: the dimmer walk puts
\* its end that long after its start, and half-way through it the brightness
\* is half-way between its clamped start and end brightness
PhaseLasts(k, duration) ==
    LET given == GivenDimmer[k]
        from == Max(0, Min(Percent, given[2]))
        to == Max(0, Min(Percent, given[3]))
    IN  /\ PhaseEndMs(seg.dimmer_time, k) - PhaseStartMs(seg.dimmer_time, k)
               = duration
        /\ GetBrightnessAtTime(seg,
               seg.segment_start_time + PhaseStartMs(seg.dimmer_time, k)
                   + duration \div 2)
               = Frac(from + to, 2 * Percent)

C25_ListsSameLength ==
    Constructed =>
        /\ Len(seg.transparency) = Len(seg.color)
        /\ Len(seg.length) = Len(seg.color)

\* what construction gives: color is not empty, transparency and length are
\* not shorter than color, and are as long as color when they were given no
\* longer than it
C25_ListsPadded ==
    Constructed =>
        /\ Len(seg.color) >= 1
        /\ Len(seg.transparency) = Max(Len(seg.color), Len(call.pre.transparency))
        /\ Len(seg.length) = Max(Len(seg.color), Len(call.pre.length))

-----------------------------------------------------------------------------
(* Properties of the engine                                                *)

StagingOps == { "cache_change_scene", "cache_change_effect",
                "cache_change_palette" }

\* <<current_position, segment_start_time>> of every segment of every scene
Motion(e) ==
    [sc \in DOMAIN e.scenes |->
        [ef \in DOMAIN e.scenes[sc].effects |->
            [sg \in DOMAIN e.scenes[sc].effects[ef] |->
                << e.scenes[sc].effects[ef][sg].current_position,
                   e.scenes[sc].effects[ef][sg].segment_start_time >>]]]

\* C4: staging operations change only the staged ids: up to the next
\* commit_pattern the engine has the active ids, the segments, the dissolve
\* and the emitted frame of the twin engine that received no staging at all.
C4_StagingInvisible ==
    /\ [eng EXCEPT !.staged = shadow.staged] = shadow
    /\ eng.active = shadow.active
    /\ eng.emitted = shadow.emitted

\* frames have gone out while a staged id differed from the active one
C4_Witness ==
    /\ op = "tick"
    /\ eng.staged # eng.active
    /\ eng.staged # shadow.staged
    /\ eng.now >= 2 * TickMs
    /\ eng.emitted # ZeroFrame

\* C5: commit_pattern adopts the staged ids as active and starts a dissolve
\* when a staged id differs from its active id, and changes nothing
\* otherwise; load_scenes leaves no dissolve, and no other operation starts
\* one.
C5_CommitRule ==
    [][ /\ (op' = "commit_pattern" /\ eng.staged # eng.active) =>
              /\ eng'.active = eng.staged
              /\ eng'.staged = eng.staged
              /\ eng'.dissolve.on
              /\ eng'.dissolve.start_instant = eng.now
              /\ eng'.dissolve.from_frame = eng.last_frame
        /\ (op' = "commit_pattern" /\ eng.staged = eng.active) =>
              eng' = eng
        /\ (op' = "load_scenes") =>
              (~eng'.dissolve.on /\ eng'.active = FirstIds)
        /\ (op' # "commit_pattern" /\ ~eng.dissolve.on) =>
              ~eng'.dissolve.on ]_vars

\* a commit has adopted staged ids and a dissolve runs from that instant
C5_Witness ==
    /\ op = "commit_pattern"
    /\ eng.active # FirstIds
    /\ eng.dissolve.on
    /\ eng.dissolve.start_instant = eng.now
    /\ eng.now > 0

\* a commit without a staged difference has left the engine without dissolve
C5_NoopWitness ==
    /\ op = "commit_pattern"
    /\ eng.staged = eng.active
    /\ ~eng.dissolve.on
    /\ eng.now > 0

C7_DissolveMonotone ==
    [][ (eng.dissolve.on /\ eng'.dissolve = eng.dissolve) =>
            \A led \in 0..(LedCount - 1) :
                FracLeq(LedProgress(eng, led), LedProgress(eng', led)) ]_vars

\* a dissolve is under way: one band has completed, another has not
C7_Witness ==
    /\ op = "tick"
    /\ eng.dissolve.on
    /\ \E led \in 0..(LedCount - 1) : LedProgress(eng, led) = <<1, 1>>
    /\ \E led \in 0..(LedCount - 1) :
          /\ LedProgress(eng, led) # <<0, 1>>
          /\ LedProgress(eng, led) # <<1, 1>>

RECURSIVE PatternEndMs(_)
\* the latest band end of a pattern: max of delay_ms + duration_ms, 0 for a
\* pattern with no band
PatternEndMs(pattern) ==
    IF pattern = <<>> THEN 0
    ELSE Max(Head(pattern)[1] + Head(pattern)[2], PatternEndMs(Tail(pattern)))

\* the last operation was a tick that rendered a frame
TickRendered == op = "tick" /\ ~eng.paused

\* C26: a dissolve terminates: the frame rendered at or after the latest
\* band end (delay_ms + duration_ms after the commit; at once for a pattern
\* with no band) leaves no dissolve record, and a frame rendered with no
\* dissolve record is the raw render of the active effect.
C26_DissolveTerminates ==
    TickRendered =>
        /\ eng.dissolve.on =>
               eng.now - eng.dissolve.start_instant
                   < PatternEndMs(eng.dissolve.pattern)
        /\ ~eng.dissolve.on =>
               /\ eng.dissolve = NoDissolve
               /\ eng.last_frame = RenderActive(eng)
               /\ eng.emitted =
                      ApplyMasterBrightnessArray(RenderActive(eng),
                                                 eng.master_brightness)

\* one staging and one commit at instant 0, then frames up to the end of the
\* second band of pattern 0: the dissolve record is gone
C26_Witness ==
    /\ TickRendered
    /\ controls = 2
    /\ eng.active # FirstIds
    /\ eng.dissolve_pattern_id = 0
    /\ eng.now = PatternEndMs(DissolvePatterns[1])
    /\ ~eng.dissolve.on

=============================================================================
